---- MODULE Spec2Model ----
(***************************************************************************)
(* Model of mltoolbox/pocket_classifier.py: the Pocket and                 *)
(* PocketClassifier classes.                                               *)
(*                                                                         *)
(* numpy arrays are objects with identity: `arrays` is the store of the    *)
(* arrays the classifier allocates, and `weights` / pocket.best_weights    *)
(* are references into it.  `self.weights[1:] += ...` writes into the      *)
(* referenced array in place; `self.pocket.best_weights = self.weights`    *)
(* copies the reference, not the array.                                    *)
(*                                                                         *)
(* A weight array of d+1 entries is a sequence w with w[1] the bias        *)
(* (Python weights[0]) and w[k+1] the weight of attribute k (Python        *)
(* weights[k]).  Attribute values are small integers, which float64        *)
(* represents and adds exactly.                                            *)
(***************************************************************************)
EXTENDS Integers, Sequences, FiniteSets, TLC

\* ---------------------------------------------------------------- bounds
MaxCells == 2           \* attribute values in a training set (samples times attributes)
MaxNewData == 1         \* length of the argument of classify
MaxIterArg == 0         \* max_iterator ranges over -1..MaxIterArg and the default
MaxTrainCalls == 2      \* calls of train on the instance
SepBound == 2           \* separating weight vectors are searched in -SepBound..SepBound

\* default of train's max_iterator parameter
DefaultMaxIterator == 10

\* -1 means the pocket is initialized but does not have a valid value
Sentinel == -1

\* the pairs passed as class_labels: the docstring's (-1, 1) and a pair that
\* is disjoint from the numeric codes
ClassLabelPairs == {<<-1, 1>>, <<3, 4>>}

\* the values of number_of_attributes passed to the constructor
AttributeCounts == {1, 2}

\* the attribute values of samples
AttrVals == {0, 1}

IterArgs == (-1..MaxIterArg) \cup {DefaultMaxIterator}

\* addresses of the two arrays the constructors allocate with np.zeros
PocketArray == 1
WeightsArray == 2

VARIABLES
    number_of_attributes, \* constructor argument d
    class_labels,         \* constructor argument (L0, L1)
    arrays,               \* store of numpy arrays: address -> contents
    weights,              \* self.weights (a reference)
    pocket,               \* self.pocket: [best_weights (a reference), misclassify_count]
    misclassify_record,   \* self.misclassify_record
    label_map,            \* self._label_map
    reversed_label_map,   \* self._reversed_label_map
    pc,                   \* "idle" between calls, "train" inside train's loop
    samples,              \* train's argument
    labels,               \* train's argument
    transferred_labels,   \* train's local
    max_iterator,         \* train's argument
    passes,               \* iterations of train's outer loop executed by this call
    misclassifies,        \* train's local, value at the end of the last pass
    broke,                \* the loop was left through break
    ret,                  \* value returned by the last call
    trainCalls,           \* history: calls of train so far
    recordAtCall,         \* history: Len(misclassify_record) when the running call began
    minSeen,              \* history: the least misclassifies value of all completed
                          \* passes, Sentinel before the first
    prevCount,            \* history: pocket.misclassify_count when the last pass of the
                          \* running call began
    retained              \* history: contents of self.weights at the end of the last
                          \* pass that updated the pocket

vars == <<number_of_attributes, class_labels, arrays, weights, pocket, misclassify_record,
          label_map, reversed_label_map, pc, samples, labels,
          transferred_labels, max_iterator, passes, misclassifies, broke, ret,
          trainCalls, recordAtCall, minSeen, prevCount, retained>>

\* ------------------------------------------------------------ helpers
Zeros(n) == [k \in 1..n |-> 0]

SeqsUpTo(S, lo, hi) == UNION {[1..n -> S] : n \in lo..hi}

SamplesOf(d) == [1..d -> AttrVals]

RECURSIVE Inner(_, _, _)
\* np.inner(sample, w[1:]) over attributes k..Len(sample)
Inner(sample, w, k) ==
    IF k > Len(sample) THEN 0
    ELSE sample[k] * w[k + 1] + Inner(sample, w, k + 1)

\* PocketClassifier._linear_combination
LinearCombination(sample, w) == Inner(sample, w, 1)

\* variant of Predict: the tie at 0 resolved to the negative code
PredictStrict(x) == IF x > 0 THEN 1 ELSE -1

\* np.where(x >= 0.0, 1, -1)
Predict(x) == IF x >= 0 THEN 1 ELSE -1

\* update = target - np.where(linear_combination >= 0.0, 1, -1)
Update(target, sample, w) == target - Predict(LinearCombination(sample, w))

\* self.weights[1:] += np.multiply(update, sample); self.weights[0] += update
UpdateWeights(w, update, sample) ==
    [k \in 1..Len(w) |->
        IF k = 1 THEN w[1] + update ELSE w[k] + update * sample[k - 1]]

\* variant of Misclassified: counts the samples that needed no update
MisclassifiedFlipped(update) == IF update = 0 THEN 1 ELSE 0

\* int(update != 0.0)
Misclassified(update) == IF update # 0 THEN 1 ELSE 0

RECURSIVE SamplePass(_, _, _, _)
\* the inner loop of train over zip(samples, transferred_labels)
SamplePass(w, mis, ss, ts) ==
    IF ss = <<>> \/ ts = <<>> THEN [w |-> w, mis |-> mis]
    ELSE LET update == Update(Head(ts), Head(ss), w)
         IN SamplePass(UpdateWeights(w, update, Head(ss)),
                       mis + Misclassified(update), Tail(ss), Tail(ts))

\* variant of PocketReplace: without the strictly-lower clause
PocketReplaceNoLower(count, mis) == (count = Sentinel) \/ (mis = 0)

\* the condition under which train updates the pocket
PocketReplace(count, mis) == (count = Sentinel) \/ (count > mis) \/ (mis = 0)

\* variant of StoreBest: the pocket's own array receives a copy of the weights
StoreBestCopy(arrs, wref, bref) ==
    [arrays |-> [arrs EXCEPT ![PocketArray] = arrs[wref]], best |-> PocketArray]

\* self.pocket.best_weights = self.weights
StoreBest(arrs, wref, bref) == [arrays |-> arrs, best |-> wref]

\* variant of Break: the loop never stops early
BreakNever(mis) == FALSE

\* if misclassifies == 0: break
Break(mis) == mis = 0

\* variant of RecordAfterPass: the append precedes the break
RecordAlways(rec, count, brk) == Append(rec, count)

\* self.misclassify_record.append(self.pocket.misclassify_count), which a
\* break skips
RecordAfterPass(rec, count, brk) ==
    IF brk THEN rec ELSE Append(rec, count)

\* PocketClassifier.classify, as a function of the state
ClassifyResult(new_data) ==
    [i \in 1..Len(new_data) |->
        label_map[Predict(LinearCombination(new_data[i], arrays[weights])
                          + arrays[weights][1])]]

\* the arrays behind the two references
Weights == arrays[weights]
BestWeights == arrays[pocket.best_weights]

NoRet == [op |-> "none", new_data |-> <<>>, out |-> <<>>]

\* ------------------------------------------------------------ Init
\* Pocket.__init__ and PocketClassifier.__init__
Init ==
    /\ number_of_attributes \in AttributeCounts
    /\ arrays = [a \in {PocketArray, WeightsArray} |-> Zeros(number_of_attributes + 1)]
    /\ weights = WeightsArray
    /\ pocket = [best_weights |-> PocketArray, misclassify_count |-> Sentinel]
    /\ misclassify_record = <<>>
    /\ class_labels \in ClassLabelPairs
    /\ label_map = [c \in {1, -1} |-> IF c = 1 THEN class_labels[1] ELSE class_labels[2]]
    /\ reversed_label_map =
          [l \in {class_labels[1], class_labels[2]} |-> IF l = class_labels[2] THEN -1 ELSE 1]
    /\ pc = "idle"
    /\ samples = <<>>
    /\ labels = <<>>
    /\ transferred_labels = <<>>
    /\ max_iterator = 0
    /\ passes = 0
    /\ misclassifies = 0
    /\ broke = FALSE
    /\ ret = NoRet
    /\ trainCalls = 0
    /\ recordAtCall = 0
    /\ minSeen = Sentinel
    /\ prevCount = Sentinel
    /\ retained = Zeros(number_of_attributes + 1)

\* ------------------------------------------------------------ actions
\* train is entered: the labels are transferred to numerical labels
TrainCall(ss, ls, mi) ==
    /\ pc = "idle"
    /\ trainCalls < MaxTrainCalls
    /\ pc' = "train"
    /\ samples' = ss
    /\ labels' = ls
    /\ transferred_labels' = [i \in 1..Len(ls) |-> reversed_label_map[ls[i]]]
    /\ max_iterator' = mi
    /\ passes' = 0
    /\ misclassifies' = 0
    /\ broke' = FALSE
    /\ ret' = NoRet
    /\ trainCalls' = trainCalls + 1
    /\ recordAtCall' = Len(misclassify_record)
    /\ prevCount' = pocket.misclassify_count
    /\ UNCHANGED <<number_of_attributes, arrays, weights, pocket,
                   misclassify_record, label_map, reversed_label_map, minSeen,
                   class_labels, retained>>

\* one iteration of `for _ in range(max_iterator)`
TrainPass ==
    /\ pc = "train"
    /\ ~broke
    /\ passes < max_iterator
    /\ LET r == SamplePass(arrays[weights], 0, samples, transferred_labels)
           updated == [arrays EXCEPT ![weights] = r.w]
           replace == PocketReplace(pocket.misclassify_count, r.mis)
           stored == IF replace
                     THEN StoreBest(updated, weights, pocket.best_weights)
                     ELSE [arrays |-> updated, best |-> pocket.best_weights]
           count == IF replace THEN r.mis ELSE pocket.misclassify_count
       IN /\ arrays' = stored.arrays
          /\ pocket' = [best_weights |-> stored.best, misclassify_count |-> count]
          /\ misclassifies' = r.mis
          /\ broke' = Break(r.mis)
          /\ misclassify_record' =
                RecordAfterPass(misclassify_record, count, Break(r.mis))
          /\ minSeen' = IF minSeen = Sentinel \/ r.mis < minSeen THEN r.mis ELSE minSeen
          /\ prevCount' = pocket.misclassify_count
          /\ retained' = IF replace THEN r.w ELSE retained
    /\ passes' = passes + 1
    /\ UNCHANGED <<number_of_attributes, weights, label_map, reversed_label_map,
                   pc, samples, labels, transferred_labels, max_iterator, ret,
                   trainCalls, recordAtCall, class_labels>>

\* the loop ends, by break or by exhausting range(max_iterator); train returns
\* None and its arguments and locals are gone
TrainReturn ==
    /\ pc = "train"
    /\ broke \/ passes >= max_iterator
    /\ pc' = "idle"
    /\ ret' = [op |-> "train", new_data |-> <<>>, out |-> <<>>]
    /\ samples' = <<>>
    /\ labels' = <<>>
    /\ transferred_labels' = <<>>
    /\ max_iterator' = 0
    /\ passes' = 0
    /\ misclassifies' = 0
    /\ broke' = FALSE
    /\ recordAtCall' = 0
    /\ prevCount' = Sentinel
    /\ UNCHANGED <<number_of_attributes, arrays, weights, pocket,
                   misclassify_record, label_map, reversed_label_map,
                   trainCalls, minSeen, class_labels, retained>>

\* variant of Classify: the bias is folded into the attribute weights in place
ClassifyInPlace(new_data) ==
    /\ pc = "idle"
    /\ ret' = [op |-> "classify", new_data |-> new_data, out |-> ClassifyResult(new_data)]
    /\ arrays' = [arrays EXCEPT ![weights] =
                     [k \in 1..Len(@) |-> IF k = 1 THEN @[1] ELSE @[k] + @[1]]]
    /\ UNCHANGED <<number_of_attributes, weights, pocket,
                   misclassify_record, label_map, reversed_label_map, pc,
                   samples, labels, transferred_labels, max_iterator, passes,
                   misclassifies, broke, trainCalls, recordAtCall, minSeen,
                   class_labels, prevCount, retained>>

\* classify(new_data); np.inner rejects an empty new_data, so new_data is not empty
Classify(new_data) ==
    /\ pc = "idle"
    /\ ret' = [op |-> "classify", new_data |-> new_data, out |-> ClassifyResult(new_data)]
    /\ UNCHANGED <<number_of_attributes, arrays, weights, pocket,
                   misclassify_record, label_map, reversed_label_map, pc,
                   samples, labels, transferred_labels, max_iterator, passes,
                   misclassifies, broke, trainCalls, recordAtCall, minSeen,
                   class_labels, prevCount, retained>>

Next ==
    \/ \E n \in 0..(MaxCells \div number_of_attributes) :
         \E ss \in [1..n -> SamplesOf(number_of_attributes)] :
           \E ls \in [1..n -> DOMAIN reversed_label_map] :
             \E mi \in IterArgs : TrainCall(ss, ls, mi)
    \/ TrainPass
    \/ TrainReturn
    \/ \E nd \in SeqsUpTo(SamplesOf(number_of_attributes), 1, MaxNewData) : Classify(nd)

Spec == Init /\ [][Next]_vars

\* ------------------------------------------------------------ properties
\* a pass of train has completed on the instance
Trained == minSeen # Sentinel

\* the last step completed a pass of train
PassStep == passes' = passes + 1

\* train has executed its last statement and is about to return
AtReturn == pc = "train" /\ (broke \/ passes >= max_iterator)

\* some affine boundary with weights in -SepBound..SepBound classifies every
\* sample of the training set as its label
Separable(ss, ts) ==
    \E w \in [1..(number_of_attributes + 1) -> (-SepBound)..SepBound] :
        \A i \in 1..Len(ss) : Predict(LinearCombination(ss[i], w) + w[1]) = ts[i]

\* the first call of train, with the default max_iterator, on a separable
\* non-empty training set, is about to return
SeparableRun ==
    /\ AtReturn
    /\ trainCalls = 1
    /\ max_iterator = DefaultMaxIterator
    /\ samples # <<>>
    /\ Separable(samples, transferred_labels)

\* C1: after every completed pass the pocket's weight vector is the value the
\* current weights had at the end of the most recent pass that replaced the
\* pocket; passes that do not replace the pocket leave it unchanged.
C1_PocketRetention == Trained => BestWeights = retained

\* C2: after train(samples, labels, 10) on a fresh classifier and a linearly
\* separable training set, classify(samples) returns the training labels.
C2_SeparableReproduced == SeparableRun => ClassifyResult(samples) = labels

\* C3: the pocket's misclassification count, once initialized, never
\* increases, and after each completed pass it is the minimum of the counts of
\* all passes completed so far.
C3_PocketMonotone ==
    /\ [](Trained => pocket.misclassify_count = minSeen)
    /\ [][pocket.misclassify_count # Sentinel =>
            pocket'.misclassify_count <= pocket.misclassify_count]_vars

\* C3 witness: a later pass lowered a pocket count that was already set
C3_Witness ==
    /\ passes > 0
    /\ prevCount > pocket.misclassify_count
    /\ pocket.misclassify_count > 0
    /\ trainCalls = 2

\* C4: train with max_iterator = 10 on a fresh classifier and a linearly
\* separable training set returns through the early stop with the pocket's
\* count equal to 0.
C4_SeparableConverges ==
    SeparableRun => (broke /\ misclassifies = 0 /\ pocket.misclassify_count = 0)

\* C5: the entries a call of train has appended to the record number the
\* passes it executed, minus one if its last pass had zero misclassifications.
C5_HistoryLength ==
    pc = "train" =>
        Len(misclassify_record) - recordAtCall =
            passes - (IF passes > 0 /\ misclassifies = 0 THEN 1 ELSE 0)

\* C5 witness: a second call of train returns by early stop after several
\* passes, the first call having appended entries too
C5_Witness ==
    /\ AtReturn
    /\ trainCalls = 2
    /\ recordAtCall > 0
    /\ passes >= 2
    /\ misclassifies = 0
    /\ Len(misclassify_record) = recordAtCall + passes - 1

\* C6: a call of classify changes neither the weights, the pocket, the record
\* nor the label maps, and two successive calls with the same input return
\* the same output.
C6_ClassifyPure ==
    /\ [][(pc = "idle" /\ pc' = "idle" /\ ret'.op = "classify") =>
            UNCHANGED <<arrays, weights, pocket, misclassify_record,
                        label_map, reversed_label_map>>]_vars
    /\ [][(ret.op = "classify" /\ ret'.op = "classify"
              /\ ret'.new_data = ret.new_data) => ret'.out = ret.out]_vars
    /\ [](ret.op = "classify" => ret.out = ClassifyResult(ret.new_data))

\* C6 witness: classify was called on a trained classifier with non-zero bias
C6_Witness ==
    /\ ret.op = "classify"
    /\ Trained
    /\ Weights[1] # 0

\* C7: while no pass has executed, the weights and the pocket's weights are
\* all zero with d+1 entries, the pocket's count is the sentinel, the record
\* is empty, and classify returns L0 for every sample.
C7_Untrained ==
    ~Trained =>
        /\ Weights = Zeros(number_of_attributes + 1)
        /\ BestWeights = Zeros(number_of_attributes + 1)
        /\ pocket.misclassify_count = Sentinel
        /\ misclassify_record = <<>>
        /\ \A nd \in SeqsUpTo(SamplesOf(number_of_attributes), 1, MaxNewData) :
              ClassifyResult(nd) = [i \in 1..Len(nd) |-> class_labels[1]]
        /\ ret.op = "classify" =>
              \A i \in 1..Len(ret.out) : ret.out[i] = class_labels[1]

\* C7 witness: classify was called after a train call that executed no pass
C7_Witness ==
    /\ ~Trained
    /\ trainCalls >= 1
    /\ ret.op = "classify"

\* C8: once a pass has completed with zero misclassifications the next step
\* of the call is its return, which leaves the weights, the pocket and the
\* record as they were at the end of that pass, with the pocket's count 0.
C8_EarlyStop ==
    [][(pc = "train" /\ passes > 0 /\ misclassifies = 0) =>
          /\ pc' = "idle"
          /\ arrays' = arrays
          /\ weights' = weights
          /\ pocket' = pocket
          /\ misclassify_record' = misclassify_record
          /\ pocket.misclassify_count = 0]_vars

\* C8 witness: train returns by early stop before exhausting max_iterator,
\* after a pass that had misclassifications
C8_Witness ==
    /\ AtReturn
    /\ passes >= 2
    /\ passes < max_iterator
    /\ misclassifies = 0
    /\ pocket.misclassify_count = 0

\* C9: at the end of a pass with zero misclassifications, either the pocket's
\* stored count was strictly greater than zero, or it was already zero and
\* the replacement leaves the pocket's weights and count unchanged.
C9_ZeroClauseRedundant ==
    [][(PassStep /\ misclassifies' = 0) =>
          \/ pocket.misclassify_count > 0
          \/ /\ pocket.misclassify_count = 0
             /\ BestWeights' = BestWeights
             /\ pocket'.misclassify_count = pocket.misclassify_count]_vars

\* C9, amended: at the end of a pass with zero misclassifications, either the
\* pocket was uninitialized (stored count -1), or its stored count was
\* strictly greater than zero, or it was already zero and the replacement
\* leaves the pocket's weights and count unchanged.
C9_ZeroClauseAmended ==
    [][(PassStep /\ misclassifies' = 0) =>
          \/ pocket.misclassify_count = Sentinel
          \/ pocket.misclassify_count > 0
          \/ /\ pocket.misclassify_count = 0
             /\ BestWeights' = BestWeights
             /\ pocket'.misclassify_count = pocket.misclassify_count]_vars

\* C9 witness: a pass with zero misclassifications ended while the pocket's
\* count was already zero and the weights were not the initial ones
C9_Witness ==
    /\ passes > 0
    /\ misclassifies = 0
    /\ prevCount = 0
    /\ Weights # Zeros(number_of_attributes + 1)

====
